---- MODULE Spec2Model ----
(***************************************************************************)
(* Model of embedder.py: the BertEmbedder class (constructor, schema       *)
(* creation, single and batch store, close) and the script's main block    *)
(* (try: construct and write; finally: close if the embedder was bound).   *)
(*                                                                         *)
(* The sentence-transformer model and the Weaviate service are external.   *)
(* The model is a deterministic function from text to vector that may      *)
(* raise; each store call (connect, exists, create, insert, insert_many)   *)
(* either takes effect or raises.  uuid.uuid4() is a generator that never  *)
(* returns a value it returned before.                                     *)
(***************************************************************************)
EXTENDS Integers, Sequences, FiniteSets, TLC

VARIABLES
    pc,          \* position of the main block: start / session / failed / done
    session,     \* number of the current run of the script
    schemaRuns,  \* runs of _create_schema that returned, over all runs of the script
    creates,     \* collections.create calls issued, over all runs of the script
    embedder,    \* the main block's variable `embedder`: "None" or "obj"
    conn,        \* self.client's connection: none (attribute unset) / open / closed
    closeCount,  \* client.close() calls made on this run's connection
    collection,  \* the TextEmbedding collection in the store
    records,     \* the objects held by the collection, in insertion order
    callLog,     \* every call this run issued to the store, in order
    stdout,      \* the lines this run printed
    generated,   \* the values uuid4 returned so far, in order
    writes,      \* write calls made so far (bounds the model)
    last         \* the last call made by the main block and its outcome

vars == <<pc, session, schemaRuns, creates, embedder, conn, closeCount, collection,
          records, callLog, stdout, generated, writes, last>>

\* ---- bounds -------------------------------------------------------------
MaxSessions == 2
MaxWrites == 2
MaxBatch == 2

\* ---- inputs -------------------------------------------------------------
Texts == {"a", "b"}
\* None, the empty string, and a non-empty value
UrlValues == {"None", "", "url"}
KeyValues == {"None", "", "key"}
LiteralIds == {"x"}

RECURSIVE SeqsUpTo(_, _)
SeqsUpTo(S, n) ==
    IF n = 0 THEN {<<>>}
    ELSE LET shorter == SeqsUpTo(S, n - 1)
         IN shorter \cup {Append(s, e) : s \in {t \in shorter : Len(t) = n - 1}, e \in S}

TextLists == SeqsUpTo(Texts, MaxBatch)

Range(s) == {s[i] : i \in 1..Len(s)}

\* Python truthiness of an Optional[str]
Truthy(s) == s # "None" /\ s # ""

\* SentenceTransformer.encode on one text (a fixed function of the text)
encode(text) == IF text = "a" THEN <<1, 0>> ELSE <<0, 1>>

\* str(uuid.uuid4()) after the values in gen were generated
uuid4(gen) == "u" \o ToString(Len(gen) + 1)

SchemaProps == {"text", "text_id"}

\* a call issued to the store: its operation, its payload and whether it succeeded
Call(op, objs, ok) == [op |-> op, objs |-> objs, ok |-> ok]

\* number of calls of `op` in a call log
CountOp(log, op) == Cardinality({i \in 1..Len(log) : log[i].op = op})

\* ---- BertEmbedder.__init__: the connection step ---------------------------
\* "open" / "error" (connect raised) / "none" (the else branch: only a print)
connect_wrong_test(weaviate_url, weaviate_api_key, connectOk) ==
    IF Truthy(weaviate_url) \/ Truthy(weaviate_api_key)
    THEN IF connectOk THEN "open" ELSE "error"
    ELSE "none"

connect(weaviate_url, weaviate_api_key, connectOk) ==
    IF Truthy(weaviate_url) /\ Truthy(weaviate_api_key)
    THEN IF connectOk THEN "open" ELSE "error"
    ELSE "none"

\* ---- BertEmbedder._create_schema ----------------------------------------
\* Result of running _create_schema: the exception raised (or none), the
\* collection, the call log and the output afterwards.
create_schema_no_exists_test(c, coll, log, out, existsOk, createOk) ==
    IF c = "none"
    THEN [err |-> "AttributeError", coll |-> coll, log |-> log, out |-> out]
    ELSE IF ~existsOk
    THEN [err |-> "StoreError", coll |-> coll,
          log |-> Append(log, Call("exists", <<>>, FALSE)), out |-> out]
    ELSE IF ~createOk
    THEN [err |-> "StoreError", coll |-> coll,
          log |-> log \o <<Call("exists", <<>>, TRUE), Call("create", <<>>, FALSE)>>,
          out |-> out]
    ELSE [err |-> "none",
          coll |-> [exists |-> TRUE, props |-> SchemaProps],
          log |-> log \o <<Call("exists", <<>>, TRUE), Call("create", <<>>, TRUE)>>,
          out |-> Append(out, "Created TextEmbedding collection in Weaviate")]

create_schema_swallows_errors(c, coll, log, out, existsOk, createOk) ==
    IF c = "none"
    THEN [err |-> "AttributeError", coll |-> coll, log |-> log, out |-> out]
    ELSE IF ~existsOk
    THEN [err |-> "none", coll |-> coll,
          log |-> Append(log, Call("exists", <<>>, FALSE)), out |-> out]
    ELSE IF ~coll.exists
    THEN IF ~createOk
         THEN [err |-> "none", coll |-> coll,
               log |-> log \o <<Call("exists", <<>>, TRUE), Call("create", <<>>, FALSE)>>,
               out |-> out]
         ELSE [err |-> "none",
               coll |-> [exists |-> TRUE, props |-> SchemaProps],
               log |-> log \o <<Call("exists", <<>>, TRUE), Call("create", <<>>, TRUE)>>,
               out |-> Append(out, "Created TextEmbedding collection in Weaviate")]
    ELSE [err |-> "none", coll |-> coll,
          log |-> Append(log, Call("exists", <<>>, TRUE)),
          out |-> Append(out, "TextEmbedding collection already exists")]

create_schema(c, coll, log, out, existsOk, createOk) ==
    IF c = "none"
    THEN [err |-> "AttributeError", coll |-> coll, log |-> log, out |-> out]
    ELSE IF ~existsOk
    THEN [err |-> "StoreError", coll |-> coll,
          log |-> Append(log, Call("exists", <<>>, FALSE)), out |-> out]
    ELSE IF ~coll.exists
    THEN IF ~createOk
         THEN [err |-> "StoreError", coll |-> coll,
               log |-> log \o <<Call("exists", <<>>, TRUE), Call("create", <<>>, FALSE)>>,
               out |-> out]
         ELSE [err |-> "none",
               coll |-> [exists |-> TRUE, props |-> SchemaProps],
               log |-> log \o <<Call("exists", <<>>, TRUE), Call("create", <<>>, TRUE)>>,
               out |-> Append(out, "Created TextEmbedding collection in Weaviate")]
    ELSE [err |-> "none", coll |-> coll,
          log |-> Append(log, Call("exists", <<>>, TRUE)),
          out |-> Append(out, "TextEmbedding collection already exists")]

\* ---- BertEmbedder.__init__ called by the main block ----------------------
\* `embedder` is bound only when the constructor returns.
BertEmbedder_init(weaviate_url, weaviate_api_key, loadOk, connectOk, existsOk, createOk) ==
    /\ pc = "start"
    /\ IF ~loadOk
       THEN \* SentenceTransformer(model_name) raised
            /\ last' = [op |-> "init", url |-> weaviate_url, key |-> weaviate_api_key,
                        err |-> "ModelLoadError"]
            /\ pc' = "failed"
            /\ UNCHANGED <<conn, collection, callLog, stdout, embedder, creates, schemaRuns>>
       ELSE LET c == connect(weaviate_url, weaviate_api_key, connectOk)
            IN IF c = "error"
               THEN \* connect_to_weaviate_cloud raised: self.client is not set
                    /\ callLog' = Append(callLog, Call("connect", <<>>, FALSE))
                    /\ last' = [op |-> "init", url |-> weaviate_url,
                                key |-> weaviate_api_key, err |-> "ConnectError"]
                    /\ pc' = "failed"
                    /\ UNCHANGED <<conn, collection, stdout, embedder, creates, schemaRuns>>
               ELSE LET log1 == IF c = "open"
                                THEN Append(callLog, Call("connect", <<>>, TRUE))
                                ELSE callLog
                        out1 == IF c = "open" THEN stdout
                                ELSE Append(stdout, "clound is not working")
                        r == create_schema(c, collection, log1, out1, existsOk, createOk)
                    IN /\ conn' = c
                       /\ collection' = r.coll
                       /\ callLog' = r.log
                       /\ stdout' = r.out
                       /\ creates' = creates + CountOp(r.log, "create")
                                             - CountOp(callLog, "create")
                       /\ schemaRuns' = IF r.err = "none" THEN schemaRuns + 1
                                        ELSE schemaRuns
                       /\ embedder' = IF r.err = "none" THEN "obj" ELSE "None"
                       /\ pc' = IF r.err = "none" THEN "session" ELSE "failed"
                       /\ last' = [op |-> "init", url |-> weaviate_url,
                                   key |-> weaviate_api_key, err |-> r.err]
    /\ UNCHANGED <<session, closeCount, records, generated, writes>>

\* ---- BertEmbedder.embed_text --------------------------------------------
embed_text(text) == encode(text)

\* ---- BertEmbedder.store_embedding ----------------------------------------
\* the identifier used: the caller's, or a generated one when it is None
text_id_always_generated(text_id, gen) == uuid4(gen)

text_id_used(text_id, gen) == IF text_id = "None" THEN uuid4(gen) ELSE text_id

\* the store calls made by collection.data.insert(properties=..., vector=...)
insert_with_retry(data_object, ok) ==
    IF ok THEN <<Call("insert", <<data_object>>, TRUE)>>
    ELSE <<Call("insert", <<data_object>>, FALSE), Call("insert", <<data_object>>, FALSE)>>

insert(data_object, ok) == <<Call("insert", <<data_object>>, ok)>>

store_embedding(text, text_id, modelOk, insertOk) ==
    /\ pc = "session"
    /\ writes < MaxWrites
    /\ writes' = writes + 1
    /\ IF ~modelOk
       THEN \* embed_text raised
            /\ last' = [op |-> "store_embedding", text |-> text, text_id |-> text_id,
                        ret |-> "None", err |-> "ModelError"]
            /\ pc' = "failed"
            /\ UNCHANGED <<generated, callLog, records, stdout>>
       ELSE LET embedding == embed_text(text)
                id == text_id_used(text_id, generated)
                data_object == [text |-> text, text_id |-> id, vector |-> embedding]
            IN /\ generated' = IF id = text_id THEN generated ELSE Append(generated, id)
               /\ callLog' = callLog \o insert(data_object, insertOk)
               /\ IF insertOk
                  THEN /\ records' = Append(records, data_object)
                       /\ stdout' = Append(stdout, "Stored text with ID: " \o id)
                       /\ last' = [op |-> "store_embedding", text |-> text,
                                   text_id |-> text_id, ret |-> id, err |-> "none"]
                       /\ pc' = "session"
                  ELSE /\ last' = [op |-> "store_embedding", text |-> text,
                                   text_id |-> text_id, ret |-> "None",
                                   err |-> "InsertError"]
                       /\ pc' = "failed"
                       /\ UNCHANGED <<records, stdout>>
    /\ UNCHANGED <<session, schemaRuns, creates, embedder, conn, closeCount, collection>>

\* ---- BertEmbedder.batch_store_embeddings ---------------------------------
\* the identifiers generated by the loop, one uuid4 per text
RECURSIVE batch_ids(_, _)
batch_ids(n, gen) ==
    IF n = 0 THEN <<>>
    ELSE LET id == uuid4(gen) IN <<id>> \o batch_ids(n - 1, Append(gen, id))

\* the objects the loop builds from zip(texts, embeddings) and the identifiers
batch_objects_last_text(texts, embeddings, ids) ==
    [i \in 1..Len(ids) |->
        [text |-> texts[Len(texts)], text_id |-> ids[i], vector |-> embeddings[i]]]

batch_objects(texts, embeddings, ids) ==
    [i \in 1..Len(ids) |->
        [text |-> texts[i], text_id |-> ids[i], vector |-> embeddings[i]]]

batch_store_embeddings_insert_first(texts, modelOk, insertOk) ==
    /\ pc = "session"
    /\ writes < MaxWrites
    /\ writes' = writes + 1
    /\ LET embeddings == [i \in 1..Len(texts) |-> encode(texts[i])]
           stored_ids == batch_ids(Len(texts), generated)
           objects_to_insert == batch_objects(texts, embeddings, stored_ids)
       IN /\ generated' = generated \o stored_ids
          /\ callLog' = Append(callLog, Call("insert_many", objects_to_insert, insertOk))
          /\ IF insertOk /\ modelOk
             THEN /\ records' = records \o objects_to_insert
                  /\ stdout' = Append(stdout, "Stored " \o ToString(Len(texts))
                                              \o " texts in batch")
                  /\ last' = [op |-> "batch_store_embeddings", texts |-> texts,
                              ret |-> stored_ids, err |-> "none"]
                  /\ pc' = "session"
             ELSE /\ last' = [op |-> "batch_store_embeddings", texts |-> texts,
                              ret |-> <<>>,
                              err |-> IF insertOk THEN "ModelError" ELSE "InsertError"]
                  /\ pc' = "failed"
                  /\ UNCHANGED <<records, stdout>>
    /\ UNCHANGED <<session, schemaRuns, creates, embedder, conn, closeCount, collection>>

batch_store_embeddings(texts, modelOk, insertOk) ==
    /\ pc = "session"
    /\ writes < MaxWrites
    /\ writes' = writes + 1
    /\ IF ~modelOk
       THEN \* self.model.encode(texts) raised
            /\ last' = [op |-> "batch_store_embeddings", texts |-> texts,
                        ret |-> <<>>, err |-> "ModelError"]
            /\ pc' = "failed"
            /\ UNCHANGED <<generated, callLog, records, stdout>>
       ELSE LET embeddings == [i \in 1..Len(texts) |-> encode(texts[i])]
                stored_ids == batch_ids(Len(texts), generated)
                objects_to_insert == batch_objects(texts, embeddings, stored_ids)
            IN /\ generated' = generated \o stored_ids
               /\ callLog' = Append(callLog, Call("insert_many", objects_to_insert, insertOk))
               /\ IF insertOk
                  THEN /\ records' = records \o objects_to_insert
                       /\ stdout' = Append(stdout, "Stored " \o ToString(Len(texts))
                                                   \o " texts in batch")
                       /\ last' = [op |-> "batch_store_embeddings", texts |-> texts,
                                   ret |-> stored_ids, err |-> "none"]
                       /\ pc' = "session"
                  ELSE /\ last' = [op |-> "batch_store_embeddings", texts |-> texts,
                                   ret |-> <<>>, err |-> "InsertError"]
                       /\ pc' = "failed"
                       /\ UNCHANGED <<records, stdout>>
    /\ UNCHANGED <<session, schemaRuns, creates, embedder, conn, closeCount, collection>>

\* ---- BertEmbedder.close --------------------------------------------------
close ==
    /\ conn' = "closed"
    /\ closeCount' = closeCount + 1
    /\ callLog' = Append(callLog, Call("close", <<>>, TRUE))

\* ---- main block: the end of the try body and the finally clause ----------
main_finally ==
    /\ pc \in {"session", "failed"}
    /\ IF embedder # "None"
       THEN /\ close
            /\ stdout' = Append(stdout, "Connection closed properly")
       ELSE UNCHANGED <<conn, closeCount, callLog, stdout>>
    /\ pc' = "done"
    /\ UNCHANGED <<session, schemaRuns, creates, embedder, collection, records,
                   generated, writes, last>>

\* ---- the script is run again against the same store ----------------------
Rerun ==
    /\ pc = "done"
    /\ session < MaxSessions
    /\ session' = session + 1
    /\ pc' = "start"
    /\ embedder' = "None"
    /\ conn' = "none"
    /\ closeCount' = 0
    /\ callLog' = <<>>
    /\ stdout' = <<>>
    /\ last' = [op |-> "none", err |-> "none"]
    /\ UNCHANGED <<schemaRuns, creates, collection, records, generated, writes>>

Init ==
    /\ pc = "start"
    /\ session = 1
    /\ schemaRuns = 0
    /\ creates = 0
    /\ embedder = "None"
    /\ conn = "none"
    /\ closeCount = 0
    /\ collection \in {[exists |-> FALSE, props |-> {}],
                       [exists |-> TRUE, props |-> SchemaProps]}
    /\ records = <<>>
    /\ callLog = <<>>
    /\ stdout = <<>>
    /\ generated = <<>>
    /\ writes = 0
    /\ last = [op |-> "none", err |-> "none"]

\* identifiers a caller can pass: None, a literal, or one returned earlier
CallerIds == {"None"} \cup LiteralIds \cup {records[i].text_id : i \in 1..Len(records)}

Construct ==
    \E u \in UrlValues, k \in KeyValues, l \in BOOLEAN, c \in BOOLEAN,
       x \in BOOLEAN, m \in BOOLEAN :
        BertEmbedder_init(u, k, l, c, x, m)

StoreOne ==
    \E t \in Texts, id \in CallerIds, m \in BOOLEAN, i \in BOOLEAN :
        store_embedding(t, id, m, i)

StoreBatch ==
    \E ts \in TextLists, m \in BOOLEAN, i \in BOOLEAN :
        batch_store_embeddings(ts, m, i)

\* one run of the script
Next ==
    \/ Construct
    \/ StoreOne
    \/ StoreBatch
    \/ main_finally

Spec == Init /\ [][Next]_vars

\* runs of the script, one after the other, against the same store
NextRerun ==
    \/ Construct
    \/ main_finally
    \/ Rerun

SpecRerun == Init /\ [][NextRerun]_vars

\* ==== properties ==========================================================
IsWrite(c) == c.op \in {"insert", "insert_many"}
\* the step is a call of store_embedding / batch_store_embeddings
WriteStep(op) == writes' = writes + 1 /\ last'.op = op

\* C1: at the end of every run the connection that was opened has been closed
\* exactly once: none is left open, whatever the exit path (normal completion, a
\* failed write or embedding, a failure inside the constructor after the
\* connection was acquired), and close is never applied twice.
C1_ClosedExactlyOnce ==
    /\ closeCount <= 1
    /\ pc = "done" => /\ conn # "open"
                      /\ (conn = "closed" <=> closeCount = 1)

C3_EmptyBatchNoInsert ==
    [][(/\ WriteStep("batch_store_embeddings")
        /\ last'.texts = <<>>
        /\ last'.err = "none")
       => /\ last'.ret = <<>>
          /\ callLog' = callLog
          /\ records' = records]_vars

\* C4: _create_schema is idempotent over runs against the same store.  The
\* first run that returns issues one create call when the collection was
\* absent and none when it was present, and leaves the collection with the
\* properties {text, text_id}; every later run issues the exists check only
\* (after connecting) and leaves the collection as it was.
C4_SchemaIdempotent ==
    [][/\ (schemaRuns = 0 /\ schemaRuns' = 1)
          => /\ creates' = creates + (IF collection.exists THEN 0 ELSE 1)
             /\ collection' = [exists |-> TRUE, props |-> SchemaProps]
       /\ schemaRuns >= 1
          => /\ creates' = creates
             /\ collection' = collection
             /\ schemaRuns' = schemaRuns + 1
                => callLog' = <<Call("connect", <<>>, TRUE), Call("exists", <<>>, TRUE)>>
      ]_vars

C4_Witness ==
    /\ schemaRuns = 2
    /\ creates = 1
    /\ stdout = <<"TextEmbedding collection already exists">>

\* C5: when batch_store_embeddings(texts) returns, the identifier list has the
\* length of texts and the objects submitted in the insert_many call are, in
\* input order, {text: texts[i], text_id: result[i], vector: encode(texts[i])}.
C5_BatchAligned ==
    (pc = "session" /\ last.op = "batch_store_embeddings" /\ last.err = "none")
    => /\ Len(last.ret) = Len(last.texts)
       /\ Len(callLog) >= 1
       /\ LET c == callLog[Len(callLog)]
          IN /\ c.op = "insert_many"
             /\ Len(c.objs) = Len(last.texts)
             /\ \A i \in 1..Len(last.texts) :
                    c.objs[i] = [text |-> last.texts[i], text_id |-> last.ret[i],
                                 vector |-> encode(last.texts[i])]

C5_Witness ==
    /\ pc = "session"
    /\ last.op = "batch_store_embeddings"
    /\ last.err = "none"
    /\ last.texts = <<"a", "b">>

\* C6: a store_embedding(text, text_id) call that returns r makes exactly one
\* insert call, carrying {text: text, text_id: r, vector: encode(text)}, and the
\* store gains exactly that record; r is text_id when one is given, and
\* otherwise a newly generated identifier that differs from every identifier
\* generated before.
C6_StoreOne ==
    [][(WriteStep("store_embedding") /\ last'.err = "none")
       => LET rec == [text |-> last'.text, text_id |-> last'.ret,
                      vector |-> encode(last'.text)]
          IN /\ callLog' = Append(callLog, Call("insert", <<rec>>, TRUE))
             /\ records' = Append(records, rec)
             /\ last'.text_id # "None" => /\ last'.ret = last'.text_id
                                          /\ generated' = generated
             /\ last'.text_id = "None" => /\ last'.ret \notin Range(generated)
                                          /\ generated' = Append(generated, last'.ret)
      ]_vars

C6_Witness ==
    /\ last.op = "store_embedding"
    /\ last.err = "none"
    /\ last.text_id = "None"
    /\ Len(generated) >= 2
    /\ last.ret = generated[Len(generated)]

\* C7: no two records written to the collection carry the same text_id.
C7_UniqueIds ==
    \A i, j \in 1..Len(records) :
        i # j => records[i].text_id # records[j].text_id

\* C8: the calls of a run are ordered connect, exists (and create when the
\* collection was absent), writes, close: every insert / insert_many call comes
\* after a successful connect and a successful exists check, with the
\* collection present, and none comes after close.
C8_Ordered ==
    \A i \in 1..Len(callLog) :
        /\ IsWrite(callLog[i])
           => /\ i >= 3
              /\ callLog[1] = Call("connect", <<>>, TRUE)
              /\ callLog[2] = Call("exists", <<>>, TRUE)
              /\ collection.exists
              /\ \A j \in 1..(i - 1) : callLog[j].op # "close"
        /\ callLog[i].op = "close" => i = Len(callLog)

C8_Witness ==
    /\ pc = "done"
    /\ Len(callLog) >= 5
    /\ callLog[3].op = "create"
    /\ IsWrite(callLog[4])
    /\ callLog[Len(callLog)].op = "close"

\* C9: a write call whose insert the store rejects has issued exactly one store
\* call (insert for store_embedding, insert_many carrying one object per text
\* for batch_store_embeddings), stores nothing, returns no identifier and
\* raises to the main block.
C9_NoRetry ==
    [][(writes' = writes + 1 /\ last'.err = "InsertError")
       => /\ Len(callLog') = Len(callLog) + 1
          /\ LET c == callLog'[Len(callLog')]
             IN /\ ~c.ok
                /\ last'.op = "store_embedding"
                   => c.op = "insert" /\ Len(c.objs) = 1 /\ last'.ret = "None"
                /\ last'.op = "batch_store_embeddings"
                   => c.op = "insert_many" /\ Len(c.objs) = Len(last'.texts)
                      /\ last'.ret = <<>>
          /\ records' = records
          /\ pc' = "failed"
      ]_vars

C9_Witness ==
    /\ last.op = "store_embedding"
    /\ last.err = "InsertError"
    /\ writes = 2

\* C10: a write call in which the model raises issues no call to the store:
\* the call log and the records are unchanged, and the call raises.
C10_EmbedFirst ==
    [][(writes' = writes + 1 /\ last'.err = "ModelError")
       => /\ callLog' = callLog
          /\ records' = records
          /\ generated' = generated
          /\ pc' = "failed"
      ]_vars

C10_Witness ==
    /\ last.op = "batch_store_embeddings"
    /\ last.err = "ModelError"
    /\ Len(last.texts) = 2
    /\ Len(records) >= 1
====
